---- MODULE Spec2Model ----
(***************************************************************************)
(* Model of src/modules/coursier.ts: install, launch, restoreCache,        *)
(* saveCache and remove, together with the parts of the runner they act    *)
(* on (search path, files under the home directory, log, cache store).     *)
(*                                                                         *)
(* Strings are sequences of one-character strings, so that concatenation,  *)
(* prefixes and substrings are the ones of the program's strings.  The     *)
(* search path is the set of its directories.  Only the messages the       *)
(* module logs itself are in the log, not the lines printed by the tools.  *)
(* The runner starts with nothing installed and ~/bin not on the path.     *)
(***************************************************************************)
EXTENDS FiniteSets, Integers, Sequences

VARIABLES
    input,       \* the arguments the caller passes to launch
    pc,          \* position of the single control flow: "idle" or the pending await
    call,        \* the operation being (or last) executed and its inputs
    outcome,     \* "none", "running", "returned" or "thrown"
    error,       \* message of the error the call threw to its caller
    cause,       \* message of the error caught by the call's catch block
    log,         \* log events emitted by the call (core.debug/info/warning/error/group)
    openGroups,  \* log groups started and not yet ended
    PATH,        \* directories on the process search path
    pathAdded,   \* history: install has called core.addPath
    fs,          \* paths that exist
    fsBefore,    \* history: fs when the last remove() started
    executable,  \* paths with the executable bit
    execs,       \* exec.exec invocations made by the call
    steps,       \* external steps attempted by the call, with their success
    store,       \* entries of the cache store
    storeCall    \* last call made to the cache store

vars ==
    <<input, pc, call, outcome, error, cause, log, openGroups, PATH, pathAdded,
      fs, fsBefore, executable, execs, steps, store, storeCall>>

(***************************************************************************)
(* Bounds                                                                  *)
(***************************************************************************)
MaxArgs ==
    2
MaxGroup ==
    2
MaxOpenGroups ==
    1
MaxClock ==
    10
MaxSaved ==
    2

(***************************************************************************)
(* String literals of the source                                           *)
(***************************************************************************)
MsgInstalling ==
    <<"I", "n", "s", "t", "a", "l", "l", "i", "n", "g", " ", "c", "o", "u", "r", "s", "i", "e", "r", " ", "f", "r", "o", "m", " ">>
MsgCoursierInstalled ==
    <<"U+2713", " ", "C", "o", "u", "r", "s", "i", "e", "r", " ", "i", "n", "s", "t", "a", "l", "l", "e", "d", ",", " ", "v", "e", "r", "s", "i", "o", "n", ":", " ">>
MsgScalafmtInstalled ==
    <<"U+2713", " ", "S", "c", "a", "l", "a", "f", "m", "t", " ", "i", "n", "s", "t", "a", "l", "l", "e", "d", ",", " ", "v", "e", "r", "s", "i", "o", "n", ":", " ">>
MsgScalafixInstalled ==
    <<"U+2713", " ", "S", "c", "a", "l", "a", "f", "i", "x", " ", "i", "n", "s", "t", "a", "l", "l", "e", "d", ",", " ", "v", "e", "r", "s", "i", "o", "n", ":", " ">>
ScalafmtPrefix ==
    <<"s", "c", "a", "l", "a", "f", "m", "t", " ">>
MsgInstallFailed ==
    <<"U", "n", "a", "b", "l", "e", " ", "t", "o", " ", "i", "n", "s", "t", "a", "l", "l", " ", "c", "o", "u", "r", "s", "i", "e", "r", " ", "o", "r", " ", "m", "a", "n", "a", "g", "e", "d", " ", "t", "o", "o", "l", "s">>
MsgLaunching ==
    <<"L", "a", "u", "n", "c", "h", "i", "n", "g", " ">>
MsgFailed ==
    <<" ", "f", "a", "i", "l", "e", "d">>
MsgRestoreGroup ==
    <<"T", "r", "y", "i", "n", "g", " ", "t", "o", " ", "r", "e", "s", "t", "o", "r", "e", " ", "C", "o", "u", "r", "s", "i", "e", "r", "'", "s", " ", "c", "a", "c", "h", "e", ".", ".", ".">>
MsgRestored ==
    <<"C", "o", "u", "r", "s", "i", "e", "r", " ", "c", "a", "c", "h", "e", " ", "w", "a", "s", " ", "r", "e", "s", "t", "o", "r", "e", "d">>
MsgNotFound ==
    <<"C", "o", "u", "r", "s", "i", "e", "r", " ", "c", "a", "c", "h", "e", " ", "w", "a", "s", "n", "'", "t", " ", "f", "o", "u", "n", "d">>
MsgUnableRestore ==
    <<"U", "n", "a", "b", "l", "e", " ", "t", "o", " ", "r", "e", "s", "t", "o", "r", "e", " ", "C", "o", "u", "r", "s", "i", "e", "r", "'", "s", " ", "c", "a", "c", "h", "e">>
MsgSaveGroup ==
    <<"S", "a", "v", "i", "n", "g", " ", "C", "o", "u", "r", "s", "i", "e", "r", "'", "s", " ", "c", "a", "c", "h", "e", ".", ".", ".">>
MsgSaved ==
    <<"C", "o", "u", "r", "s", "i", "e", "r", " ", "c", "a", "c", "h", "e", " ", "h", "a", "s", " ", "b", "e", "e", "n", " ", "s", "a", "v", "e", "d">>
MsgUnableSave ==
    <<"U", "n", "a", "b", "l", "e", " ", "t", "o", " ", "s", "a", "v", "e", " ", "C", "o", "u", "r", "s", "i", "e", "r", "'", "s", " ", "c", "a", "c", "h", "e">>
MsgExecuteError ==
    <<"T", "h", "e", "r", "e", " ", "w", "a", "s", " ", "a", "n", " ", "e", "r", "r", "o", "r", " ", "w", "h", "i", "l", "e", " ", "e", "x", "e", "c", "u", "t", "i", "n", "g", " ", "'">>
CacheKeyPrefix ==
    <<"c", "o", "u", "r", "s", "i", "e", "r", "-", "c", "a", "c", "h", "e", "-">>
Cs ==
    <<"c", "s">>
Gzip ==
    <<"g", "z", "i", "p">>
Chmod ==
    <<"c", "h", "m", "o", "d">>
Scalafmt ==
    <<"s", "c", "a", "l", "a", "f", "m", "t">>
Scalafix ==
    <<"s", "c", "a", "l", "a", "f", "i", "x">>
ArgLaunch ==
    <<"l", "a", "u", "n", "c", "h">>
ArgContrib ==
    <<"-", "-", "c", "o", "n", "t", "r", "i", "b">>
ArgR ==
    <<"-", "r">>
ArgSnapshots ==
    <<"s", "o", "n", "a", "t", "y", "p", "e", ":", "s", "n", "a", "p", "s", "h", "o", "t", "s">>
ArgSep ==
    <<"-", "-">>
ArgSetup ==
    <<"s", "e", "t", "u", "p">>
ArgYes ==
    <<"-", "-", "y", "e", "s">>
ArgJvm ==
    <<"-", "-", "j", "v", "m">>
ArgAdoptium ==
    <<"a", "d", "o", "p", "t", "i", "u", "m", ":", "1", "7">>
ArgApps ==
    <<"-", "-", "a", "p", "p", "s">>
ArgAppList ==
    <<"s", "c", "a", "l", "a", "f", "m", "t", ",", "s", "c", "a", "l", "a", "f", "i", "x">>
ArgInstallDir ==
    <<"-", "-", "i", "n", "s", "t", "a", "l", "l", "-", "d", "i", "r">>
ArgVersion ==
    <<"v", "e", "r", "s", "i", "o", "n">>
ArgDashVersion ==
    <<"-", "-", "v", "e", "r", "s", "i", "o", "n">>
ArgUninstall ==
    <<"u", "n", "i", "n", "s", "t", "a", "l", "l">>
ArgAll ==
    <<"-", "-", "a", "l", "l">>
ArgD ==
    <<"-", "d">>
ArgPlusX ==
    <<"+", "x">>
DirBin ==
    <<"b", "i", "n">>
FileCsGz ==
    <<"c", "s", ".", "g", "z">>
DirCache ==
    <<".", "c", "a", "c", "h", "e">>
DirCoursier ==
    <<"c", "o", "u", "r", "s", "i", "e", "r">>
DirV1 ==
    <<"v", "1">>

(***************************************************************************)
(* Texts produced by the collaborators of the module: error messages of    *)
(* @actions/io, @actions/tool-cache, @actions/exec and @actions/cache, the *)
(* output of the tools, and the home directory.                            *)
(***************************************************************************)
ErrMkdir ==
    <<"E", "A", "C", "C", "E", "S", ":", " ", "m", "k", "d", "i", "r">>
ErrDownload ==
    <<"U", "n", "e", "x", "p", "e", "c", "t", "e", "d", " ", "H", "T", "T", "P", " ", "r", "e", "s", "p", "o", "n", "s", "e", ":", " ", "5", "0", "0">>
ErrDestExists ==
    <<"D", "e", "s", "t", "i", "n", "a", "t", "i", "o", "n", " ", "f", "i", "l", "e", " ", "p", "a", "t", "h", " ", "a", "l", "r", "e", "a", "d", "y", " ", "e", "x", "i", "s", "t", "s">>
ErrLocate ==
    <<"U", "n", "a", "b", "l", "e", " ", "t", "o", " ", "l", "o", "c", "a", "t", "e", " ", "e", "x", "e", "c", "u", "t", "a", "b", "l", "e", " ", "f", "i", "l", "e", ":", " ">>
ErrExitCode ==
    <<"T", "h", "e", " ", "p", "r", "o", "c", "e", "s", "s", " ", "f", "a", "i", "l", "e", "d", " ", "w", "i", "t", "h", " ", "e", "x", "i", "t", " ", "c", "o", "d", "e", " ", "1", ":", " ">>
ErrRemove ==
    <<"F", "i", "l", "e", " ", "w", "a", "s", " ", "u", "n", "a", "b", "l", "e", " ", "t", "o", " ", "b", "e", " ", "r", "e", "m", "o", "v", "e", "d">>
ErrStore ==
    <<"C", "a", "c", "h", "e", " ", "s", "e", "r", "v", "i", "c", "e", " ", "r", "e", "s", "p", "o", "n", "d", "e", "d", " ", "w", "i", "t", "h", " ", "5", "0", "3">>
CsVersionOut ==
    <<"2", ".", "1", ".", "2", "4", "\n">>
ScalafmtVersionOut ==
    <<"s", "c", "a", "l", "a", "f", "m", "t", " ", "3", ".", "8", ".", "3", "\n">>
ScalafixVersionOut ==
    <<"0", ".", "1", "3", ".", "0", "\n">>
HomeDir ==
    <<"/", "h", "o", "m", "e", "/", "r">>

(***************************************************************************)
(* Strings, paths, log events                                              *)
(***************************************************************************)
NoString ==
    <<>>

Space ==
    <<" ">>

Whitespace ==
    {" ", "\n", "\t"}

Digits ==
    <<"0", "1", "2", "3", "4", "5", "6", "7", "8", "9">>

RECURSIVE NumberToString(_)
\* Number.prototype.toString() of a non-negative integer
NumberToString(n) ==
    IF n < 10 THEN <<Digits[n + 1]>>
    ELSE NumberToString(n \div 10) \o <<Digits[(n % 10) + 1]>>

RECURSIVE TrimStart(_)
TrimStart(s) ==
    IF s # <<>> /\ Head(s) \in Whitespace THEN TrimStart(Tail(s)) ELSE s

RECURSIVE TrimEnd(_)
TrimEnd(s) ==
    IF s # <<>> /\ s[Len(s)] \in Whitespace
    THEN TrimEnd(SubSeq(s, 1, Len(s) - 1)) ELSE s

\* String.prototype.trim()
Trim(s) ==
    TrimEnd(TrimStart(s))

IsPrefix(p, s) ==
    Len(p) <= Len(s) /\ SubSeq(s, 1, Len(p)) = p

\* s.replace(/^p/, '')
StripPrefix(s, p) ==
    IF IsPrefix(p, s) THEN SubSeq(s, Len(p) + 1, Len(s)) ELSE s

\* String.prototype.includes
Contains(s, sub) ==
    \E i \in 0..(Len(s) - Len(sub)) : SubSeq(s, i + 1, i + Len(sub)) = sub

RECURSIVE Join(_, _)
\* Array.prototype.join
Join(ss, sep) ==
    IF ss = <<>> THEN <<>>
    ELSE IF Len(ss) = 1 THEN ss[1]
    ELSE ss[1] \o sep \o Join(Tail(ss), sep)

\* path.join of two segments that need no normalisation
PathJoin(a, b) ==
    a \o <<"/">> \o b

BinPath ==
    PathJoin(HomeDir, DirBin)

CsGzPath ==
    PathJoin(BinPath, FileCsGz)

ToolPath(tool) ==
    PathJoin(BinPath, tool)

CachePath ==
    PathJoin(PathJoin(PathJoin(HomeDir, DirCache), DirCoursier), DirV1)

Debug(msg) ==
    [level |-> "debug", msg |-> msg]

Info(msg) ==
    [level |-> "info", msg |-> msg]

Warning(msg) ==
    [level |-> "warning", msg |-> msg]

StartGroup(name) ==
    [level |-> "group", msg |-> name]

EndGroup ==
    [level |-> "endgroup", msg |-> NoString]

(***************************************************************************)
(* exec.exec: the tool is looked up on the search path, the process runs,  *)
(* and the promise rejects when the tool is not found or, unless           *)
(* ignoreReturnCode is set, when the exit code is not zero.                *)
(***************************************************************************)
SystemTools ==
    {Gzip, Chmod}

ManagedTools ==
    {Cs, Scalafmt, Scalafix}

ExitCodes ==
    {0, 1}

Found(tool, path, files, exec) ==
    \/ tool \in SystemTools
    \/ /\ BinPath \in path
       /\ ToolPath(tool) \in files
       /\ ToolPath(tool) \in exec

ExecResults(tool, path, files, exec) ==
    IF Found(tool, path, files, exec)
    THEN {[kind |-> "exit", code |-> c] : c \in ExitCodes}
    ELSE {[kind |-> "notfound", code |-> -1]}

ExecRejects(r, ignoreReturnCode) ==
    \/ r.kind = "notfound"
    \/ ~ignoreReturnCode /\ r.code # 0

ExecError(tool, r) ==
    IF r.kind = "notfound" THEN ErrLocate \o tool ELSE ErrExitCode \o tool

\* an invocation of exec.exec and how it ended
Invocation(tool, args, path, r) ==
    [tool |-> tool, args |-> args, onPath |-> BinPath \in path, result |-> r]

\* faulty variant: the directory is not added
AddPathNoop(path, dir) ==
    path

\* core.addPath
AddPath(path, dir) ==
    path \cup {dir}

Step(name, ok) ==
    [step |-> name, ok |-> ok]

NoVersion ==
    [present |-> FALSE, value |-> NoString]

NoCall ==
    [op |-> "none", url |-> NoString, hash |-> NoString]

NoStoreCall ==
    [fn |-> "none", paths |-> <<>>, key |-> NoString, restoreKeys |-> <<>>,
     now |-> 0, result |-> "none"]

\* what every call does to the bookkeeping when it starts
Begin(c) ==
    /\ pc = "idle"
    /\ UNCHANGED input
    /\ call' = c
    /\ outcome' = "running"
    /\ error' = NoString
    /\ cause' = NoString
    /\ execs' = <<>>
    /\ steps' = <<>>

Return ==
    /\ pc' = "idle"
    /\ outcome' = "returned"
    /\ UNCHANGED <<error, cause>>

Throw(msg) ==
    /\ pc' = "idle"
    /\ outcome' = "thrown"
    /\ error' = msg
    /\ UNCHANGED cause

(***************************************************************************)
(* install                                                                 *)
(***************************************************************************)
Urls ==
    {<<"u">>, <<"u", "2">>}

SetupArgs ==
    <<ArgSetup, ArgYes, ArgJvm, ArgAdoptium, ArgApps, ArgAppList, ArgInstallDir, BinPath>>

\* faulty variant: the caught error is thrown on to the caller
InstallErrorRethrows(caught) ==
    caught

\* the error install's catch block throws for a caught error
InstallError(caught) ==
    MsgInstallFailed

\* the catch block of install
InstallCatch(caught) ==
    /\ log' = Append(log, Debug(caught))
    /\ cause' = caught
    /\ error' = InstallError(caught)
    /\ outcome' = "thrown"
    /\ pc' = "idle"

InstallContinue(next) ==
    /\ pc' = next
    /\ UNCHANGED <<outcome, error, cause>>

\* the message of the error execute() throws on a non-zero exit code
ExecuteError(tool, args) ==
    MsgExecuteError \o tool \o Space \o Join(args, Space) \o <<"'">>

\* execute(tool, ...args) for a process result r that writes out to stdout
Execute(tool, args, r, out) ==
    IF ExecRejects(r, TRUE)
    THEN [threw |-> TRUE, msg |-> ExecError(tool, r), output |-> NoString]
    ELSE IF r.code # 0
    THEN [threw |-> TRUE, msg |-> ExecuteError(tool, args), output |-> NoString]
    ELSE [threw |-> FALSE, msg |-> NoString, output |-> out]

Install ==
    \E url \in Urls :
        /\ Begin([NoCall EXCEPT !.op = "install", !.url = url])
        /\ log' = <<Debug(MsgInstalling \o url)>>
        /\ pc' = "install_mkdirP"
        /\ UNCHANGED <<fsBefore, openGroups, PATH, pathAdded, fs, executable, store,
                       storeCall>>

InstallMkdirP ==
    /\ pc = "install_mkdirP"
    /\ \E ok \in BOOLEAN :
        /\ steps' = Append(steps, Step("mkdirP", ok))
        /\ IF ok
           THEN /\ fs' = fs \cup {BinPath}
                /\ InstallContinue("install_downloadTool")
                /\ UNCHANGED log
           ELSE /\ InstallCatch(ErrMkdir)
                /\ UNCHANGED fs
    /\ UNCHANGED <<input, fsBefore, call, openGroups, PATH, pathAdded, executable,
                   execs, store, storeCall>>

\* tc.downloadTool refuses an existing destination
InstallDownloadTool ==
    /\ pc = "install_downloadTool"
    /\ \E ok \in (IF CsGzPath \in fs THEN {FALSE} ELSE BOOLEAN) :
        /\ steps' = Append(steps, Step("downloadTool", ok))
        /\ IF ok
           THEN /\ fs' = fs \cup {CsGzPath}
                /\ InstallContinue("install_gzip")
                /\ UNCHANGED log
           ELSE /\ InstallCatch(IF CsGzPath \in fs THEN ErrDestExists ELSE ErrDownload)
                /\ UNCHANGED fs
    /\ UNCHANGED <<input, fsBefore, call, openGroups, PATH, pathAdded, executable,
                   execs, store, storeCall>>

\* gzip -d replaces cs.gz by cs, and fails when cs already exists
InstallGzip ==
    /\ pc = "install_gzip"
    /\ \E r \in ExecResults(Gzip, PATH, fs, executable) :
        LET ok == ~ExecRejects(r, FALSE) IN
        /\ ok => ToolPath(Cs) \notin fs
        /\ execs' = Append(execs, Invocation(Gzip, <<ArgD, CsGzPath>>, PATH, r))
        /\ steps' = Append(steps, Step("gzip", ok))
        /\ IF ok
           THEN /\ fs' = (fs \ {CsGzPath}) \cup {ToolPath(Cs)}
                /\ InstallContinue("install_chmod")
                /\ UNCHANGED log
           ELSE /\ InstallCatch(ExecError(Gzip, r))
                /\ UNCHANGED fs
    /\ UNCHANGED <<input, fsBefore, call, openGroups, PATH, pathAdded, executable,
                   store, storeCall>>

InstallChmod ==
    /\ pc = "install_chmod"
    /\ \E r \in ExecResults(Chmod, PATH, fs, executable) :
        LET ok == ~ExecRejects(r, FALSE) IN
        /\ execs' = Append(execs, Invocation(Chmod, <<ArgPlusX, ToolPath(Cs)>>, PATH, r))
        /\ steps' = Append(steps, Step("chmod", ok))
        /\ IF ok
           THEN /\ executable' = executable \cup {ToolPath(Cs)}
                /\ InstallContinue("install_setup")
                /\ UNCHANGED log
           ELSE /\ InstallCatch(ExecError(Chmod, r))
                /\ UNCHANGED executable
    /\ UNCHANGED <<input, fsBefore, call, openGroups, PATH, pathAdded, fs, store,
                   storeCall>>

\* core.addPath(binPath), then cs setup, which installs scalafmt and
\* scalafix and downloads into the coursier cache
InstallSetup ==
    /\ pc = "install_setup"
    /\ PATH' = AddPath(PATH, BinPath)
    /\ pathAdded' = TRUE
    /\ \E r \in ExecResults(Cs, PATH', fs, executable) :
        LET ok == ~ExecRejects(r, FALSE) IN
        /\ execs' = Append(execs, Invocation(Cs, SetupArgs, PATH', r))
        /\ steps' = Append(steps, Step("setup", ok))
        /\ IF ok
           THEN /\ fs' = fs \cup {ToolPath(Scalafmt), ToolPath(Scalafix), CachePath}
                /\ executable' = executable \cup {ToolPath(Scalafmt), ToolPath(Scalafix)}
                /\ InstallContinue("install_csVersion")
                /\ UNCHANGED log
           ELSE /\ InstallCatch(ExecError(Cs, r))
                /\ UNCHANGED <<fs, executable>>
    /\ UNCHANGED <<input, fsBefore, call, openGroups, store, storeCall>>

InstallCsVersion ==
    /\ pc = "install_csVersion"
    /\ \E r \in ExecResults(Cs, PATH, fs, executable) :
        LET e == Execute(Cs, <<ArgVersion>>, r, CsVersionOut) IN
        /\ execs' = Append(execs, Invocation(Cs, <<ArgVersion>>, PATH, r))
        /\ steps' = Append(steps, Step("csVersion", ~e.threw))
        /\ IF e.threw
           THEN InstallCatch(e.msg)
           ELSE /\ log' = Append(log, Info(MsgCoursierInstalled \o Trim(e.output)))
                /\ InstallContinue("install_scalafmtVersion")
    /\ UNCHANGED <<input, fsBefore, call, openGroups, PATH, pathAdded, fs,
                   executable, store, storeCall>>

InstallScalafmtVersion ==
    /\ pc = "install_scalafmtVersion"
    /\ \E r \in ExecResults(Scalafmt, PATH, fs, executable) :
        LET e == Execute(Scalafmt, <<ArgDashVersion>>, r, ScalafmtVersionOut) IN
        /\ execs' = Append(execs, Invocation(Scalafmt, <<ArgDashVersion>>, PATH, r))
        /\ steps' = Append(steps, Step("scalafmtVersion", ~e.threw))
        /\ IF e.threw
           THEN InstallCatch(e.msg)
           ELSE /\ log' = Append(log, Info(MsgScalafmtInstalled
                                           \o Trim(StripPrefix(e.output, ScalafmtPrefix))))
                /\ InstallContinue("install_scalafixVersion")
    /\ UNCHANGED <<input, fsBefore, call, openGroups, PATH, pathAdded, fs,
                   executable, store, storeCall>>

InstallScalafixVersion ==
    /\ pc = "install_scalafixVersion"
    /\ \E r \in ExecResults(Scalafix, PATH, fs, executable) :
        LET e == Execute(Scalafix, <<ArgDashVersion>>, r, ScalafixVersionOut) IN
        /\ execs' = Append(execs, Invocation(Scalafix, <<ArgDashVersion>>, PATH, r))
        /\ steps' = Append(steps, Step("scalafixVersion", ~e.threw))
        /\ IF e.threw
           THEN InstallCatch(e.msg)
           ELSE /\ log' = Append(log, Info(MsgScalafixInstalled \o Trim(e.output)))
                /\ Return
    /\ UNCHANGED <<input, fsBefore, call, openGroups, PATH, pathAdded, fs,
                   executable, store, storeCall>>

(***************************************************************************)
(* launch                                                                  *)
(***************************************************************************)
SeqsUpTo(S, n) ==
    UNION {[1..k -> S] : k \in 0..n}

Apps ==
    {<<"a">>, <<"a", ":", "b">>}

SomeVersion(v) ==
    [present |-> TRUE, value |-> v]

\* NonEmptyString | undefined
Versions ==
    {NoVersion, SomeVersion(<<"b">>)}

ArgStrings ==
    {<<"x">>, <<"y">>}

\* an element of args: a string or an array of strings
StringArg(s) ==
    [isString |-> TRUE, str |-> s, arr |-> <<>>]

GroupArg(a) ==
    [isString |-> FALSE, str |-> NoString, arr |-> a]

ArgElements ==
    {StringArg(s) : s \in ArgStrings}
        \cup {GroupArg(a) : a \in SeqsUpTo(ArgStrings, MaxGroup)}

ArgLists ==
    SeqsUpTo(ArgElements, MaxArgs)

\* faulty variant: the version is left out of the name
QualifiedNameWithoutVersion(app, version) ==
    app

QualifiedName(app, version) ==
    IF version.present THEN app \o <<":">> \o version.value ELSE app

RECURSIVE FlatMapDropsGroups(_)
\* faulty variant: only the bare strings are kept
FlatMapDropsGroups(args) ==
    IF args = <<>> THEN <<>>
    ELSE (IF Head(args).isString THEN <<Head(args).str>> ELSE <<>>)
             \o FlatMapDropsGroups(Tail(args))

RECURSIVE FlatMap(_)
\* args.flatMap(arg => typeof arg === 'string' ? [arg] : arg)
FlatMap(args) ==
    IF args = <<>> THEN <<>>
    ELSE (IF Head(args).isString THEN <<Head(args).str>> ELSE Head(args).arr)
             \o FlatMap(Tail(args))

LaunchArgs(name, args) ==
    <<ArgLaunch, ArgContrib, ArgR, ArgSnapshots, name, ArgSep>> \o FlatMap(args)

LaunchError(name) ==
    MsgLaunching \o name \o MsgFailed

\* the arguments of launch: every application and version with no args, and
\* one application with every args
LaunchInputs ==
    [app : Apps, version : Versions, args : {<<>>}]
        \cup [app : {<<"a">>}, version : {NoVersion}, args : ArgLists]

Launch ==
    /\ openGroups < MaxOpenGroups
    /\ Begin([NoCall EXCEPT !.op = "launch"])
    /\ log' = <<StartGroup(MsgLaunching \o QualifiedName(input.app, input.version))>>
    /\ openGroups' = openGroups + 1
    /\ pc' = "launch_exec"
    /\ UNCHANGED <<fsBefore, PATH, pathAdded, fs, executable, store, storeCall>>

\* exec.exec('cs', launchArgs, {ignoreReturnCode: true}), endGroup, and the
\* check of the exit code; a launched application fills the coursier cache
LaunchExec ==
    /\ pc = "launch_exec"
    /\ \E r \in ExecResults(Cs, PATH, fs, executable) :
        LET name == QualifiedName(input.app, input.version) IN
        /\ execs' = Append(execs, Invocation(Cs, LaunchArgs(name, input.args), PATH, r))
        /\ steps' = Append(steps, Step("launch", r.kind = "exit" /\ r.code = 0))
        /\ IF ExecRejects(r, TRUE)
           THEN /\ Throw(ExecError(Cs, r))
                /\ UNCHANGED <<log, openGroups, fs>>
           ELSE /\ log' = Append(log, EndGroup)
                /\ openGroups' = openGroups - 1
                /\ fs' = fs \cup {CachePath}
                /\ IF r.code # 0 THEN Throw(LaunchError(name)) ELSE Return
    /\ UNCHANGED <<input, fsBefore, call, PATH, pathAdded, executable, store,
                   storeCall>>

(***************************************************************************)
(* remove                                                                  *)
(***************************************************************************)
\* io.rmRF succeeds on a missing path and may fail on an existing one
RmResults(target, files) ==
    IF target \in files THEN BOOLEAN ELSE {TRUE}

\* one io.rmRF of remove(): no catch, an error goes to the caller
RemoveRm(here, next, name, target) ==
    /\ pc = here
    /\ \E ok \in RmResults(target, fs) :
        /\ steps' = Append(steps, Step(name, ok))
        /\ IF ok
           THEN /\ fs' = fs \ {target}
                /\ executable' = executable \ {target}
                /\ IF next = "idle"
                   THEN Return
                   ELSE pc' = next /\ UNCHANGED <<outcome, error, cause>>
           ELSE /\ Throw(ErrRemove)
                /\ UNCHANGED <<fs, executable>>
    /\ UNCHANGED <<input, fsBefore, call, log, openGroups, PATH, pathAdded, execs,
                   store, storeCall>>

Remove ==
    /\ Begin([NoCall EXCEPT !.op = "remove"])
    /\ log' = <<>>
    /\ fsBefore' = fs
    /\ pc' = "remove_rmCache"
    /\ UNCHANGED <<openGroups, PATH, pathAdded, fs, executable, store, storeCall>>

RemoveRmCache ==
    RemoveRm("remove_rmCache", "remove_uninstall", "rmCache", CachePath)

\* exec.exec('cs', ['uninstall', '--all'], {ignoreReturnCode: true}); the apps
\* of the default install directory are not the ones under ~/bin
RemoveUninstall ==
    /\ pc = "remove_uninstall"
    /\ \E r \in ExecResults(Cs, PATH, fs, executable) :
        /\ execs' = Append(execs, Invocation(Cs, <<ArgUninstall, ArgAll>>, PATH, r))
        /\ steps' = Append(steps, Step("uninstall", r.kind = "exit" /\ r.code = 0))
        /\ IF ExecRejects(r, TRUE)
           THEN Throw(ExecError(Cs, r))
           ELSE pc' = "remove_rmCs" /\ UNCHANGED <<outcome, error, cause>>
    /\ UNCHANGED <<input, fsBefore, call, log, openGroups, PATH, pathAdded, fs,
                   executable, store, storeCall>>

RemoveRmCs ==
    RemoveRm("remove_rmCs", "remove_rmScalafmt", "rmCs", ToolPath(Cs))

RemoveRmScalafmt ==
    RemoveRm("remove_rmScalafmt", "remove_rmScalafix", "rmScalafmt", ToolPath(Scalafmt))

RemoveRmScalafix ==
    RemoveRm("remove_rmScalafix", "idle", "rmScalafix", ToolPath(Scalafix))

(***************************************************************************)
(* restoreCache and saveCache                                              *)
(***************************************************************************)
Hashes ==
    {<<"a">>, <<"a", "-", "8">>}

MinClock ==
    8

\* readings of Date.now()
Clock ==
    MinClock..MaxClock

\* faulty variant: the key has no timestamp
PrimaryKeyWithoutTimestamp(hash, now) ==
    CacheKeyPrefix \o hash

PrimaryKey(hash, now) ==
    CacheKeyPrefix \o hash \o <<"-">> \o NumberToString(now)

\* faulty variant: the bare prefix comes first
RestoreKeysSwapped(hash) ==
    <<CacheKeyPrefix, CacheKeyPrefix \o hash>>

RestoreKeys(hash) ==
    <<CacheKeyPrefix \o hash, CacheKeyPrefix>>

\* the cache store: the entry saved under the primary key, else the first
\* restore key that is a prefix of a saved key, else a miss
Lookup(entries, key, restoreKeys) ==
    IF \E e \in entries : e.key = key
    THEN [hit |-> TRUE, via |-> 0]
    ELSE IF \E i \in 1..Len(restoreKeys) :
                \E e \in entries : IsPrefix(restoreKeys[i], e.key)
    THEN [hit |-> TRUE,
          via |-> CHOOSE i \in 1..Len(restoreKeys) :
                     /\ \E e \in entries : IsPrefix(restoreKeys[i], e.key)
                     /\ \A j \in 1..(i - 1) :
                            ~\E e \in entries : IsPrefix(restoreKeys[j], e.key)]
    ELSE [hit |-> FALSE, via |-> -1]

StoreThrew ==
    [hit |-> FALSE, via |-> -2]

\* faulty variant: the caught message is put in the warning
RestoreCatchLogWarnsCause(caught) ==
    <<Warning(caught), EndGroup>>

\* what the catch block of restoreCache logs
RestoreCatchLog(caught) ==
    <<Debug(caught), Warning(MsgUnableRestore), EndGroup>>

\* what the catch block of saveCache logs
SaveCatchLog(caught) ==
    <<Debug(caught), Warning(MsgUnableSave), EndGroup>>

RestoreCache ==
    \E hash \in Hashes :
        /\ Begin([NoCall EXCEPT !.op = "restoreCache", !.hash = hash])
        /\ log' = <<StartGroup(MsgRestoreGroup)>>
        /\ openGroups' = openGroups + 1
        /\ storeCall' = NoStoreCall
        /\ pc' = "restoreCache_store"
        /\ UNCHANGED <<fsBefore, PATH, pathAdded, fs, executable, store>>

RestoreCacheStore ==
    /\ pc = "restoreCache_store"
    /\ \E now \in Clock, threw \in BOOLEAN :
        LET key  == PrimaryKey(call.hash, now)
            keys == RestoreKeys(call.hash)
            res  == IF threw THEN StoreThrew ELSE Lookup(store, key, keys)
        IN
        /\ storeCall' = [fn |-> "restoreCache", paths |-> <<CachePath>>, key |-> key,
                         restoreKeys |-> keys, now |-> now, result |-> res]
        /\ steps' = Append(steps, Step("restoreCache", ~threw))
        /\ IF threw
           THEN /\ log' = log \o RestoreCatchLog(ErrStore)
                /\ cause' = ErrStore
                /\ UNCHANGED fs
           ELSE /\ log' = log \o <<Info(IF res.hit THEN MsgRestored ELSE MsgNotFound),
                                   EndGroup>>
                /\ fs' = IF res.hit THEN fs \cup {CachePath} ELSE fs
                /\ UNCHANGED cause
        /\ openGroups' = openGroups - 1
        /\ pc' = "idle"
        /\ outcome' = "returned"
    /\ UNCHANGED <<input, fsBefore, call, error, PATH, pathAdded, executable, execs,
                   store>>

SaveCache ==
    \E hash \in Hashes :
        /\ Cardinality(store) < MaxSaved
        /\ Begin([NoCall EXCEPT !.op = "saveCache", !.hash = hash])
        /\ log' = <<StartGroup(MsgSaveGroup)>>
        /\ openGroups' = openGroups + 1
        /\ storeCall' = NoStoreCall
        /\ pc' = "saveCache_store"
        /\ UNCHANGED <<fsBefore, PATH, pathAdded, fs, executable, store>>

\* cache.saveCache rejects paths that do not exist
SaveCacheStore ==
    /\ pc = "saveCache_store"
    /\ \E now \in Clock, threw \in (IF CachePath \in fs THEN BOOLEAN ELSE {TRUE}) :
        LET key == PrimaryKey(call.hash, now) IN
        /\ storeCall' = [fn |-> "saveCache", paths |-> <<CachePath>>, key |-> key,
                         restoreKeys |-> <<>>, now |-> now,
                         result |-> IF threw THEN StoreThrew ELSE [hit |-> FALSE, via |-> -1]]
        /\ steps' = Append(steps, Step("saveCache", ~threw))
        /\ IF threw
           THEN /\ log' = log \o SaveCatchLog(ErrStore)
                /\ cause' = ErrStore
                /\ UNCHANGED store
           ELSE /\ log' = log \o <<Info(MsgSaved), EndGroup>>
                /\ store' = store \cup {[key |-> key, now |-> now]}
                /\ UNCHANGED cause
        /\ openGroups' = openGroups - 1
        /\ pc' = "idle"
        /\ outcome' = "returned"
    /\ UNCHANGED <<input, fsBefore, call, error, PATH, pathAdded, fs, executable,
                   execs>>

(***************************************************************************)
(* Specifications                                                          *)
(***************************************************************************)
InitWith(inputs) ==
    /\ input \in inputs
    /\ pc = "idle"
    /\ call = NoCall
    /\ outcome = "none"
    /\ error = NoString
    /\ cause = NoString
    /\ log = <<>>
    /\ openGroups = 0
    /\ PATH = {}
    /\ pathAdded = FALSE
    /\ fs = {}
    /\ fsBefore = {}
    /\ executable = {}
    /\ execs = <<>>
    /\ steps = <<>>
    /\ store = {}
    /\ storeCall = NoStoreCall

\* install, launch and remove in any order: launch is called without arguments
Init ==
    InitWith({i \in LaunchInputs : i.args = <<>>})

\* every argument list of launch
LaunchInit ==
    InitWith(LaunchInputs)

\* the cache operations take no launch arguments
CacheInit ==
    InitWith({i \in LaunchInputs : i.args = <<>> /\ ~i.version.present})

Next ==
    \/ Install
    \/ InstallMkdirP
    \/ InstallDownloadTool
    \/ InstallGzip
    \/ InstallChmod
    \/ InstallSetup
    \/ InstallCsVersion
    \/ InstallScalafmtVersion
    \/ InstallScalafixVersion
    \/ Launch
    \/ LaunchExec
    \/ Remove
    \/ RemoveRmCache
    \/ RemoveUninstall
    \/ RemoveRmCs
    \/ RemoveRmScalafmt
    \/ RemoveRmScalafix

\* install, launch and remove
Spec ==
    Init /\ [][Next]_vars

LaunchNext ==
    \/ Install
    \/ InstallMkdirP
    \/ InstallDownloadTool
    \/ InstallGzip
    \/ InstallChmod
    \/ InstallSetup
    \/ InstallCsVersion
    \/ InstallScalafmtVersion
    \/ InstallScalafixVersion
    \/ Launch
    \/ LaunchExec

\* install and launch
LaunchSpec ==
    LaunchInit /\ [][LaunchNext]_vars

CacheNext ==
    \/ Install
    \/ InstallMkdirP
    \/ InstallDownloadTool
    \/ InstallGzip
    \/ InstallChmod
    \/ InstallSetup
    \/ InstallCsVersion
    \/ InstallScalafmtVersion
    \/ InstallScalafixVersion
    \/ RestoreCache
    \/ RestoreCacheStore
    \/ SaveCache
    \/ SaveCacheStore

\* install, restoreCache and saveCache
CacheSpec ==
    CacheInit /\ [][CacheNext]_vars

(***************************************************************************)
(* Properties                                                              *)
(***************************************************************************)

LaunchQualifiedName ==
    (call.op = "launch" /\ pc = "idle") =>
        LET name == IF input.version.present
                    THEN input.app \o <<":">> \o input.version.value
                    ELSE input.app
            r    == execs[1].result
        IN
        /\ Len(execs) = 1
        /\ execs[1].args[5] = name
        /\ log[1] = StartGroup(MsgLaunching \o name)
        /\ (r.kind = "exit" /\ r.code # 0) =>
               outcome = "thrown" /\ Contains(error, name)
        /\ (r.kind = "exit" /\ r.code = 0) => outcome = "returned"

\* C2 witness: a launch with a version whose cs process exited with 1
LaunchWithVersionFailed ==
    /\ call.op = "launch" /\ pc = "idle" /\ outcome = "thrown"
    /\ input.version.present
    /\ execs[1].result = [kind |-> "exit", code |-> 1]

\* C3: the arguments launch passes to cs are launch, --contrib, -r,
\* sonatype:snapshots, the qualified name, -- and then the elements of args
\* in order, each group inlined in place: element j of args occupies the
\* positions after those of the elements before it, nothing else is passed.
LaunchArgsFlattened ==
    (call.op = "launch" /\ pc = "idle") =>
        LET a         == execs[1].args
            args      == input.args
            Size(j)   == IF args[j].isString THEN 1 ELSE Len(args[j].arr)
            Item(j, i) == IF args[j].isString THEN args[j].str ELSE args[j].arr[i]
            Before(j) == Cardinality({<<k, i>> \in (1..Len(args)) \X (1..MaxGroup + 1) :
                                         k < j /\ i <= Size(k)})
        IN
        /\ execs[1].tool = Cs
        /\ SubSeq(a, 1, 4) = <<ArgLaunch, ArgContrib, ArgR, ArgSnapshots>>
        /\ a[6] = ArgSep
        /\ Len(a) = 6 + Before(Len(args) + 1)
        /\ \A j \in 1..Len(args) : \A i \in 1..Size(j) :
               a[6 + Before(j) + i] = Item(j, i)

\* C3 witness: launch was called with a string followed by a group of two
LaunchedWithGroup ==
    /\ call.op = "launch" /\ pc = "idle"
    /\ Len(input.args) = 2
    /\ input.args[1] = StringArg(<<"x">>)
    /\ input.args[2] = GroupArg(<<"y", "x">>)
    /\ Len(execs[1].args) = 9

\* C4: restoreCache and saveCache return normally whatever the cache store
\* does, and when the store call throws they emit exactly one warning and
\* the message of the store's error at debug level only.
CacheOpsNeverThrow ==
    /\ call.op \in {"restoreCache", "saveCache"} => outcome # "thrown"
    /\ (call.op \in {"restoreCache", "saveCache"} /\ pc = "idle") =>
           /\ outcome = "returned"
           /\ error = NoString
           /\ storeCall.result = StoreThrew =>
                  /\ cause = ErrStore
                  /\ Cardinality({i \in 1..Len(log) : log[i].level = "warning"}) = 1
                  /\ \E i \in 1..Len(log) : log[i] = Debug(cause)
                  /\ \A i \in 1..Len(log) :
                         Contains(log[i].msg, cause) => log[i].level = "debug"

\* C4 witness: the store threw during a restoreCache that has returned
RestoreSurvivedStoreError ==
    /\ call.op = "restoreCache" /\ pc = "idle" /\ outcome = "returned"
    /\ storeCall.result = StoreThrew

\* C5: remove() called when nothing is installed (no cache directory, no cs,
\* scalafmt or scalafix, so that cs uninstall cannot find cs) returns
\* normally and leaves the file system as it was.
RemoveIdempotent ==
    (/\ call.op = "remove" /\ pc = "idle"
     /\ fsBefore \cap {CachePath, ToolPath(Cs), ToolPath(Scalafmt), ToolPath(Scalafix)} = {})
        => (outcome = "returned" /\ fs = fsBefore)

\* C6: remove() raises no error whatever the outcome of its five steps, and
\* attempts all five of them.
RemoveFailSoft ==
    (call.op = "remove" /\ pc = "idle") =>
        /\ outcome = "returned"
        /\ [i \in 1..Len(steps) |-> steps[i].step]
             = <<"rmCache", "uninstall", "rmCs", "rmScalafmt", "rmScalafix">>

\* C7: the cache store is called with the primary key
\* coursier-cache-<hash>-<digits of the clock reading>, by restoreCache also
\* with the restore keys coursier-cache-<hash> and coursier-cache- in that
\* order, and always with the single path ~/.cache/coursier/v1.
CacheKeysWellFormed ==
    (call.op \in {"restoreCache", "saveCache"} /\ storeCall.fn # "none") =>
        LET head == CacheKeyPrefix \o call.hash \o <<"-">>
            key  == storeCall.key
            rest == SubSeq(key, Len(head) + 1, Len(key))
            DigitValue(c) == CHOOSE d \in 0..9 : Digits[d + 1] = c
            RECURSIVE Value(_)
            Value(s) == IF s = <<>> THEN 0
                        ELSE 10 * Value(SubSeq(s, 1, Len(s) - 1)) + DigitValue(s[Len(s)])
        IN
        /\ storeCall.fn = call.op
        /\ IsPrefix(head, key)
        /\ rest # <<>>
        /\ \A i \in 1..Len(rest) : \E d \in 1..10 : Digits[d] = rest[i]
        /\ Value(rest) = storeCall.now
        /\ storeCall.paths = <<HomeDir \o <<"/">> \o DirCache \o <<"/">> \o DirCoursier
                                 \o <<"/">> \o DirV1>>
        /\ storeCall.fn = "restoreCache" =>
               storeCall.restoreKeys = <<CacheKeyPrefix \o call.hash, CacheKeyPrefix>>
        /\ storeCall.fn = "saveCache" => storeCall.restoreKeys = <<>>

\* C7 witness: restoreCache of the hash a-8 at clock reading 10
RestoreCalledStore ==
    /\ call.op = "restoreCache" /\ pc = "idle"
    /\ call.hash = <<"a", "-", "8">>
    /\ storeCall.fn = "restoreCache" /\ storeCall.now = 10

\* C8 as stated: no invocation of cs, scalafmt or scalafix by name happens
\* while the bin directory is not on the search path.
ManagedToolsAlwaysOnPath ==
    \A i \in 1..Len(execs) :
        execs[i].tool \in ManagedTools => execs[i].onPath

\* C8 amended: install() invokes cs, scalafmt and scalafix only after it has
\* added the bin directory to the search path; launch() and remove() do not
\* add it, so their invocation of cs finds the directory on the path exactly
\* when an earlier install() has added it.
ManagedToolsOnPathAfterAddPath ==
    \A i \in 1..Len(execs) :
        execs[i].tool \in ManagedTools =>
            /\ call.op = "install" => execs[i].onPath
            /\ call.op \in {"launch", "remove"} => (execs[i].onPath <=> pathAdded)

\* C8 witness: a launch after an install that added the path but failed,
\* and whose cs ran
LaunchedAfterAddPath ==
    /\ call.op = "launch" /\ pc = "idle"
    /\ pathAdded
    /\ execs[1].onPath
    /\ execs[1].result.kind = "exit"

\* C9: a restoreCache call made at a clock reading different from those of
\* the earlier successful saveCache calls passes a primary key under which
\* none of them stored an entry, so it never hits on the primary key: a hit
\* comes from one of the two restore keys.
RestoreNeverHitsPrimaryKey ==
    (call.op = "restoreCache" /\ storeCall.fn = "restoreCache") =>
        /\ \A e \in store : e.now # storeCall.now => e.key # storeCall.key
        /\ (\A e \in store : e.now # storeCall.now) =>
               /\ storeCall.result.via # 0
               /\ storeCall.result.hit => storeCall.result.via \in {1, 2}

\* C9 witness: a restore of a hash saved at another clock reading hit
\* through the first restore key
RestoreHitByRestoreKey ==
    /\ call.op = "restoreCache" /\ pc = "idle"
    /\ \E e \in store :
           /\ e.key = PrimaryKey(call.hash, e.now)
           /\ e.now # storeCall.now
    /\ \A e \in store : e.now # storeCall.now
    /\ storeCall.result = [hit |-> TRUE, via |-> 1]

\* C10: every call of launch, restoreCache or saveCache closes the log group
\* it opened before it returns or throws: no group is open between calls.
LogGroupsBalanced ==
    pc = "idle" => openGroups = 0

====
